---- MODULE Spec2Model ----
(***************************************************************************)
(* remove-aws-resources: the resource listers (getAllFunctions, ...,       *)
(* getAllIAMRoles) and the deletion tasks built by generateTasks           *)
(* (src/src/utils.ts), with the provider (the AWS endpoints the code       *)
(* calls) as the environment.                                              *)
(*                                                                         *)
(* A provider call is one step: the request the code builds, the response  *)
(* (or the error) the provider gives, and the synchronous code that runs   *)
(* until the next await.                                                   *)
(***************************************************************************)
EXTENDS Integers, Sequences, FiniteSets, TLC

\* ---------------------------------------------------------------- bounds
\* Resources of one kind the provider knows (ids 1..NItems).
NItems == 3
\* Items the provider serves, over all pages, during one listing run.
MaxServed == 3
\* Most items the provider puts on one page of a resource listing.
PageSize == 2
\* Objects held by all buckets together (keys 1..n in each bucket).
MaxObjects == 3
\* Most keys the provider puts on one page of listObjects.
ObjectPage == 2
\* Inline and attached policies held by all roles together.
MaxPolicies == 3
\* Most policies the provider puts on one page of listRolePolicies or
\* listAttachedRolePolicies.
PolicyPage == 2
MaxKeys == 2
MaxPair == 2

\* ------------------------------------------------------------- utilities
Min(a, b) == IF a < b THEN a ELSE b

Range(s) == {s[n] : n \in 1..Len(s)}

\* Array.prototype.filter.
RECURSIVE SelectSeqBy(_, _)
SelectSeqBy(s, keep) ==
    IF s = <<>> THEN <<>>
    ELSE IF Head(s) \in keep THEN <<Head(s)>> \o SelectSeqBy(Tail(s), keep)
         ELSE SelectSeqBy(Tail(s), keep)

\* How many elements of s are x.
Occurrences(s, x) == Cardinality({n \in 1..Len(s) : s[n] = x})

\* All sequences over S of length at most n.
SeqsUpTo(S, n) == UNION {[1..m -> S] : m \in 0..n}

\* ------------------------------------------------------ resource records
\* A resource record is named by its id; its attributes are functions of it.
Items == 1..NItems

\* The kind's timestamp field (LastModified, creationTime, createdDate,
\* CreationDate, LastModifiedTime, CreateDate) as getTime() reads it.
\* Items 2 and 3 carry the same timestamp.
TimeOf(x) == IF x = 1 THEN 10 ELSE IF x \in {2, 3} THEN 20 ELSE 10 * x

\* The reserved prefixes of provider-managed roles, as character sequences.
AWSService == <<"A", "W", "S", "S", "e", "r", "v", "i", "c", "e">>
OrganizationAccount ==
    <<"O", "r", "g", "a", "n", "i", "z", "a", "t", "i", "o", "n",
      "A", "c", "c", "o", "u", "n", "t">>

\* RoleName of role x: 1 is a service-linked role, 2 a user role, 3 the
\* organization access role, 4 a user role whose name is a proper prefix of
\* a reserved prefix, the others user roles.
RoleNameOf(x) ==
    CASE x = 1 -> AWSService \o <<"R", "o", "l", "e">>
      [] x = 2 -> <<"m", "y", "-", "r", "o", "l", "e">>
      [] x = 3 -> OrganizationAccount \o <<"A", "c", "c", "e", "s", "s">>
      [] x = 4 -> <<"A", "W", "S">>
      [] OTHER -> <<"r", "o", "l", "e">>

\* String.prototype.startsWith.
StartsWith(s, prefix) ==
    /\ Len(s) >= Len(prefix)
    /\ SubSeq(s, 1, Len(prefix)) = prefix

\* Only the service-linked roles are left out.
IsUserRoleOrOrganization(x) == ~StartsWith(RoleNameOf(x), AWSService)

\* The filter of getAllIAMRoles: the roles it keeps.
IsUserRole(x) ==
    /\ ~StartsWith(RoleNameOf(x), AWSService)
    /\ ~StartsWith(RoleNameOf(x), OrganizationAccount)

\* The comparator with its operands swapped: oldest first.
CompareOldestFirst(a, b) == TimeOf(a) - TimeOf(b)

\* The comparator every lister sorts with: (a, b) => time(b) - time(a).
Compare(a, b) == TimeOf(b) - TimeOf(a)

\* Array.prototype.sort with that comparator (stable): x goes after every
\* element the comparator does not put behind it.
InsertSorted(t, x) ==
    LET k == Cardinality({n \in 1..Len(t) : Compare(t[n], x) <= 0})
    IN  SubSeq(t, 1, k) \o <<x>> \o SubSeq(t, k + 1, Len(t))

RECURSIVE SortByTime(_)
SortByTime(s) ==
    IF s = <<>> THEN <<>>
    ELSE InsertSorted(SortByTime(SubSeq(s, 1, Len(s) - 1)), s[Len(s)])

\* ---------------------------------------------------------------- kinds
Kinds == {"lambda", "log-group", "api-gateway", "bucket", "cloudfront", "iam-role"}

\* ----------------------------------------------------------------- state
VARIABLES
    \* --- one listing run
    lkind,      \* the kind whose lister runs
    served,     \* provider: the items it serves, in order, over all pages
    Marker,     \* the lister's cursor (0: null)
    acc,        \* the lister's accumulator (functions, groups, ...)
    lpc,        \* "loop", "returned" (promise resolved), "rejected"
    result,     \* the collection returned
    requests,   \* the listing calls issued so far: cursor and outcome
    \* --- the deletion tasks of one generateTasks(resources) call
    resources,  \* the selection mapping: kind -> selected records, in order
    order,      \* Object.keys(resources): the mapping's keys, in its order
    tasks,      \* the array generateTasks returns
    gpc,        \* "called", "returned"
    pc,         \* per kind: "none", "created", the provider call the task's
                \* async function is about to issue, "resolved", "rejected"
    i,          \* per kind: the for loop's index
    trace,      \* per kind: the observer notifications and signals, the
                \* provider calls and the retry delays, in order
    \* --- provider
    existing,   \* per kind: the resources not deleted yet
    objects,    \* per bucket: the keys it holds
    inline,     \* per role: its inline policy names
    attached,   \* per role: its attached managed policies
    enabled,    \* per distribution: DistributionConfig.Enabled
    etag,       \* per distribution: its current ETag
    initially,  \* what the provider held when the tasks were generated
    \* --- locals of the tasks' async functions
    bMarker,            \* bucket: Marker (0: undefined)
    Contents,           \* bucket: the keys of the page just listed
    IsTruncated,        \* bucket: the flag of the page just listed
    PolicyNames,        \* iam-role
    AttachedPolicies,   \* iam-role
    j,                  \* iam-role: the inner loops' index
    attemptNumber,      \* api-gateway: pRetry's attempt counter
    ETag,               \* cloudfront
    DistributionConfig  \* cloudfront

lvars == <<lkind, served, Marker, acc, lpc, result, requests>>
provider == <<existing, objects, inline, attached, enabled, etag>>
generated == <<order, tasks, gpc>>
history == <<initially>>
bucketLocals == <<bMarker, Contents, IsTruncated>>
roleLocals == <<PolicyNames, AttachedPolicies, j>>
cfLocals == <<ETag, DistributionConfig>>
locals == <<bucketLocals, roleLocals, attemptNumber, cfLocals>>
tvars == <<resources, generated, pc, i, trace, provider, history, locals>>
vars == <<lvars, tvars>>

\* --------------------------------------------------------------- listers
\* Provider: the page lengths it may answer a request at `cursor` with.
PageLens(cursor) ==
    IF cursor >= Len(served) THEN {0}
    ELSE 1..Min(PageSize, Len(served) - cursor)

\* Provider: the response to a listing request at `cursor` that carries n
\* items. NextMarker (nextToken, position, Marker) is 0 when absent.
ListResponse(cursor, n) ==
    [Items       |-> SubSeq(served, cursor + 1, cursor + n),
     IsTruncated |-> cursor + n < Len(served),
     NextMarker  |-> IF cursor + n < Len(served) THEN cursor + n ELSE 0]

\* One pass of a lister's while (true) loop: push the page, then either
\* go round with the new cursor or break, post-process and return.
LoopPass(resp, more, post) ==
    /\ lpc = "loop"
    /\ requests' = Append(requests, [Marker |-> Marker, ok |-> TRUE])
    /\ acc' = acc \o resp.Items
    /\ IF more
       THEN /\ Marker' = resp.NextMarker
            /\ lpc' = "loop"
            /\ result' = result
       ELSE /\ Marker' = Marker
            /\ lpc' = "returned"
            /\ result' = SortByTime(SelectSeqBy(acc', post))
    /\ UNCHANGED <<lkind, served, tvars>>

\* The termination checks: if (!NextMarker) break / if (!IsTruncated) break.
MoreByCursor(resp) == resp.NextMarker # 0
MoreByFlag(resp) == resp.IsTruncated

getAllFunctions ==
    /\ lkind = "lambda"
    /\ \E n \in PageLens(Marker) :
          LET resp == ListResponse(Marker, n)
          IN  LoopPass(resp, MoreByCursor(resp), Items)

getAllLogGroups ==
    /\ lkind = "log-group"
    /\ \E n \in PageLens(Marker) :
          LET resp == ListResponse(Marker, n)
          IN  LoopPass(resp, MoreByCursor(resp), Items)

getAllApiGateways ==
    /\ lkind = "api-gateway"
    /\ \E n \in PageLens(Marker) :
          LET resp == ListResponse(Marker, n)
          IN  LoopPass(resp, MoreByCursor(resp), Items)

\* One listBuckets call; only Buckets is read from the response.
getAllBuckets ==
    /\ lkind = "bucket"
    /\ lpc = "loop"
    /\ \E n \in PageLens(0) :
          LET resp == ListResponse(0, n)
          IN  /\ requests' = Append(requests, [Marker |-> 0, ok |-> TRUE])
              /\ acc' = resp.Items
              /\ result' = SortByTime(resp.Items)
              /\ lpc' = "returned"
    /\ UNCHANGED <<lkind, served, Marker, tvars>>

getAllCloudFrontDistributions ==
    /\ lkind = "cloudfront"
    /\ \E n \in PageLens(Marker) :
          LET resp == ListResponse(Marker, n)
          IN  LoopPass(resp, MoreByFlag(resp), Items)

getAllIAMRoles ==
    /\ lkind = "iam-role"
    /\ \E n \in PageLens(Marker) :
          LET resp == ListResponse(Marker, n)
          IN  LoopPass(resp, MoreByFlag(resp), {x \in Items : IsUserRole(x)})

\* A listing call throws and the lister returns what it has collected.
ListingFailsReturnsPartial ==
    /\ lpc = "loop"
    /\ requests' = Append(requests, [Marker |-> Marker, ok |-> FALSE])
    /\ lpc' = "returned"
    /\ result' = SortByTime(acc)
    /\ UNCHANGED <<lkind, served, Marker, acc, tvars>>

\* A listing call throws: the await rejects the lister's promise.
ListingFails ==
    /\ lpc = "loop"
    /\ requests' = Append(requests, [Marker |-> Marker, ok |-> FALSE])
    /\ lpc' = "rejected"
    /\ UNCHANGED <<lkind, served, Marker, acc, result, tvars>>

ListInit ==
    /\ lkind \in Kinds
    /\ served \in SeqsUpTo(Items, MaxServed)
    /\ Marker = 0
    /\ acc = <<>>
    /\ lpc = "loop"
    /\ result = <<>>
    /\ requests = <<>>

\* No listing runs.
ListIdle ==
    /\ lkind = "lambda"
    /\ served = <<>>
    /\ Marker = 0
    /\ acc = <<>>
    /\ lpc = "returned"
    /\ result = <<>>
    /\ requests = <<>>

ListNext ==
    \/ getAllFunctions
    \/ getAllLogGroups
    \/ getAllApiGateways
    \/ getAllBuckets
    \/ getAllCloudFrontDistributions
    \/ getAllIAMRoles
    \/ ListingFails

\* ------------------------------------------------------- task plumbing
\* Error codes a provider call may fail with, and the message of each.
ErrorCodes == {"TooManyRequestsException", "AccessDenied", "NotFoundException"}

MessageOf(code) ==
    CASE code = "TooManyRequestsException" -> "Too Many Requests"
      [] code = "AccessDenied" -> "User is not authorized"
      [] code = "NotFoundException" -> "Invalid identifier specified"
      [] code = "BucketNotEmpty" -> "The bucket you tried to delete is not empty"
      [] code = "DeleteConflict" -> "Cannot delete entity, must remove policies first"
      [] OTHER -> "Unknown"

Outcomes == {"ok"} \cup ErrorCodes

\* The entries of a task's trace.
\* observer.next(`${text} ${name}...`)
Notification(text, x) ==
    [ev |-> "next", op |-> text, target |-> x, arg |-> {}, info |-> 0,
     flag |-> FALSE, out |-> ""]
\* observer.next(`${error.message}. Will retry...`)
RetryNotification(x, message) ==
    [ev |-> "next", op |-> "Will retry", target |-> x, arg |-> {}, info |-> 0,
     flag |-> FALSE, out |-> message]
\* A provider call on resource x and how it ended (out). arg: the keys or
\* policies sent or listed; info: the cursor or ETag sent, or the attempt's
\* number; flag: IsTruncated of the response, or Enabled as sent.
Call(op, x, arg, info, flag, out) ==
    [ev |-> "call", op |-> op, target |-> x, arg |-> arg, info |-> info,
     flag |-> flag, out |-> out]
\* The wait pRetry inserts before the next attempt, in milliseconds.
Delay(x, ms) ==
    [ev |-> "delay", op |-> "", target |-> x, arg |-> {}, info |-> ms,
     flag |-> FALSE, out |-> ""]
Complete ==
    [ev |-> "complete", op |-> "", target |-> 0, arg |-> {}, info |-> 0,
     flag |-> FALSE, out |-> ""]
Error(message) ==
    [ev |-> "error", op |-> "", target |-> 0, arg |-> {}, info |-> 0,
     flag |-> FALSE, out |-> message]

\* The subscriber is closed once complete() or error() was called on it.
Closed(tr) == \E n \in 1..Len(tr) : tr[n].ev \in {"complete", "error"}

\* observer.next / observer.complete / observer.error: dropped when closed.
Emit(tr, e) == IF Closed(tr) THEN tr ELSE Append(tr, e)

\* The provider call a kind's loop body issues first.
FirstCall(k) ==
    CASE k = "lambda" -> "deleteFunction"
      [] k = "log-group" -> "deleteLogGroup"
      [] k = "api-gateway" -> "deleteRestApi"
      [] k = "bucket" -> "listObjects"
      [] k = "iam-role" -> "listRolePolicies"
      [] k = "cloudfront" -> "getDistributionConfig"

\* The i-th record of the catalog, whether selected or not.
ItemOfCatalog(k) == i[k] + 1

\* The list is walked from its end.
ItemFromTheEnd(k) == resources[k][Len(resources[k]) - i[k]]

\* resources[type][i]
Item(k) == resources[k][i[k] + 1]

\* The for loop's head, entered with index n: one more item, or the loop
\* ends, observer.complete() is called and the async function returns.
LoopHead(k, n, tr) ==
    /\ i' = [i EXCEPT ![k] = n]
    /\ IF n < Len(resources[k])
       THEN /\ pc' = [pc EXCEPT ![k] = FirstCall(k)]
            /\ trace' = [trace EXCEPT ![k] = tr]
       ELSE /\ pc' = [pc EXCEPT ![k] = "resolved"]
            /\ trace' = [trace EXCEPT ![k] = Emit(tr, Complete)]

\* The rejection takes every task that has not ended down with it.
ThrowAbortsAll(k, tr) ==
    /\ pc' = [o \in Kinds |->
                IF o = k \/ pc[o] \notin {"none", "resolved"} THEN "rejected" ELSE pc[o]]
    /\ trace' = [trace EXCEPT ![k] = tr]
    /\ i' = i

\* The failure is swallowed and the loop goes on with the next item.
ThrowSkipsTheItem(k, tr) == LoopHead(k, i[k] + 1, tr)

\* An awaited call throws outside any try: the async function's promise
\* rejects; nothing is said to the observer.
Throw(k, tr) ==
    /\ pc' = [pc EXCEPT ![k] = "rejected"]
    /\ trace' = [trace EXCEPT ![k] = tr]
    /\ i' = i

\* The same, staying inside the loop body at the call `label`.
Goto(k, label, tr) ==
    /\ pc' = [pc EXCEPT ![k] = label]
    /\ trace' = [trace EXCEPT ![k] = tr]
    /\ i' = i

\* task(): the observable is subscribed and the async function starts.
Subscribe ==
    /\ \E k \in DOMAIN resources :
          /\ pc[k] = "created"
          /\ LoopHead(k, 0, trace[k])
    /\ UNCHANGED <<lvars, resources, generated, history, provider, locals>>

\* Provider: resource x of kind k is gone.
Remove(k, x) == [existing EXCEPT ![k] = @ \ {x}]

\* ---------------------------------------------------------------- lambda
LambdaDeleteFunction ==
    /\ pc["lambda"] = "deleteFunction"
    /\ \E out \in Outcomes :
          LET FunctionName == Item("lambda")
              tr == Append(Emit(trace["lambda"], Notification("Deleting", FunctionName)),
                           Call("deleteFunction", FunctionName, {}, 0, FALSE, out))
          IN  IF out = "ok"
              THEN /\ LoopHead("lambda", i["lambda"] + 1, tr)
                   /\ existing' = Remove("lambda", FunctionName)
              ELSE /\ Throw("lambda", tr)
                   /\ existing' = existing
    /\ UNCHANGED <<lvars, resources, generated, history, objects, inline, attached, enabled, etag, locals>>

\* ------------------------------------------------------------- log-group
LogGroupDeleteLogGroup ==
    /\ pc["log-group"] = "deleteLogGroup"
    /\ \E out \in Outcomes :
          LET logGroupName == Item("log-group")
              tr == Append(Emit(trace["log-group"], Notification("Deleting", logGroupName)),
                           Call("deleteLogGroup", logGroupName, {}, 0, FALSE, out))
          IN  IF out = "ok"
              THEN /\ LoopHead("log-group", i["log-group"] + 1, tr)
                   /\ existing' = Remove("log-group", logGroupName)
              ELSE /\ Throw("log-group", tr)
                   /\ existing' = existing
    /\ UNCHANGED <<lvars, resources, generated, history, objects, inline, attached, enabled, etag, locals>>

\* ---------------------------------------------------------------- bucket
\* The n smallest elements of S.
Smallest(S, n) == {x \in S : Cardinality({y \in S : y < x}) < n}

SetMax(S) == CHOOSE x \in S : \A y \in S : y <= x

\* Provider: listObjects({Bucket, Marker}) serves the keys after Marker in
\* ascending order, a page at a time.
ListObjectsResponse(Bucket, marker) ==
    LET after == {x \in objects[Bucket] : x > marker}
        page == Smallest(after, ObjectPage)
    IN  [Contents |-> page, IsTruncated |-> page # after]

\* The loop goes on to deleteObjects with an empty page.
NothingListedIgnored(contents) == FALSE

\* if (!Contents.length) break;
NothingListed(contents) == contents = {}

\* The loop stops after the first page it deleted.
LastPageAlways(truncated) == TRUE

\* if (!IsTruncated) break;
LastPage(truncated) == ~truncated

\* The while loop's listObjects call.
BucketListObjects ==
    /\ pc["bucket"] = "listObjects"
    /\ \E out \in Outcomes :
          LET Bucket == Item("bucket")
              resp == ListObjectsResponse(Bucket, bMarker)
              tr == Emit(trace["bucket"], Notification("Emptying", Bucket))
          IN  IF out = "ok"
              THEN /\ Contents' = resp.Contents
                   /\ IsTruncated' = resp.IsTruncated
                   /\ Goto("bucket",
                           IF NothingListed(resp.Contents)
                           THEN "deleteBucket" ELSE "deleteObjects",
                           Append(tr, Call("listObjects", Bucket, resp.Contents, bMarker,
                                           resp.IsTruncated, out)))
              ELSE /\ Throw("bucket",
                            Append(tr, Call("listObjects", Bucket, {}, bMarker, FALSE, out)))
                   /\ UNCHANGED <<Contents, IsTruncated>>
    /\ UNCHANGED <<lvars, resources, generated, history, provider, bMarker, roleLocals, attemptNumber, cfLocals>>

\* The while loop's deleteObjects call, on the keys just listed.
BucketDeleteObjects ==
    /\ pc["bucket"] = "deleteObjects"
    /\ \E out \in Outcomes :
          LET Bucket == Item("bucket")
              tr == Append(trace["bucket"],
                           Call("deleteObjects", Bucket, Contents, 0, FALSE, out))
          IN  IF out = "ok"
              THEN /\ objects' = [objects EXCEPT ![Bucket] = @ \ Contents]
                   /\ IF LastPage(IsTruncated)
                      THEN /\ Goto("bucket", "deleteBucket", tr)
                           /\ bMarker' = bMarker
                      ELSE /\ Goto("bucket", "listObjects", tr)
                           /\ bMarker' = SetMax(Contents)
              ELSE /\ Throw("bucket", tr)
                   /\ UNCHANGED <<objects, bMarker>>
    /\ UNCHANGED <<lvars, resources, generated, history, existing, inline, attached, enabled, etag,
                   Contents, IsTruncated, roleLocals, attemptNumber, cfLocals>>

\* Provider: a bucket that holds objects cannot be deleted.
DeleteBucketOutcomes(Bucket) ==
    IF objects[Bucket] # {} THEN {"BucketNotEmpty"} ELSE Outcomes

\* After the while loop: deleteBucket; the next iteration declares a new
\* Marker (undefined).
BucketDeleteBucket ==
    /\ pc["bucket"] = "deleteBucket"
    /\ \E out \in DeleteBucketOutcomes(Item("bucket")) :
          LET Bucket == Item("bucket")
              tr == Append(Emit(trace["bucket"], Notification("Deleting", Bucket)),
                           Call("deleteBucket", Bucket, {}, 0, FALSE, out))
          IN  IF out = "ok"
              THEN /\ LoopHead("bucket", i["bucket"] + 1, tr)
                   /\ existing' = Remove("bucket", Bucket)
                   /\ bMarker' = 0
              ELSE /\ Throw("bucket", tr)
                   /\ UNCHANGED <<existing, bMarker>>
    /\ UNCHANGED <<lvars, resources, generated, history, objects, inline, attached, enabled, etag,
                   Contents, IsTruncated, roleLocals, attemptNumber, cfLocals>>

\* ----------------------------------------------------------- api-gateway
\* The options given to pRetry.
Retries == 3
MinTimeout == 60000
Factor == 2

RECURSIVE Power(_, _)
Power(b, n) == IF n = 0 THEN 1 ELSE b * Power(b, n - 1)

\* The same wait before every attempt.
TimeoutFlat(n) == MinTimeout

\* pRetry: the wait after failed attempt n (minTimeout * factor^(n-1)).
Timeout(n) == MinTimeout * Power(Factor, n - 1)

\* One retry more than the options ask for.
RetriesLeftOneMore(n) == n <= Retries + 1

\* pRetry: after failed attempt n another attempt is made.
RetriesLeft(n) == n <= Retries

\* Every error is retried.
AbortsNever(code) == FALSE

\* if (error.code !== "TooManyRequestsException") throw new pRetry.AbortError(error)
Aborts(code) == code # "TooManyRequestsException"

\* One attempt of deleteRestApi inside pRetry, with the catch block and what
\* pRetry does with the error thrown from it.
ApiDeleteRestApi ==
    /\ pc["api-gateway"] = "deleteRestApi"
    /\ \E out \in Outcomes :
          LET id == Item("api-gateway")
              \* observer.next(`Deleting ${name}...`) precedes pRetry
              tr0 == IF attemptNumber = 1
                     THEN Emit(trace["api-gateway"], Notification("Deleting", id))
                     ELSE trace["api-gateway"]
              tr1 == Append(tr0, Call("deleteRestApi", id, {}, attemptNumber, FALSE, out))
              tr2 == Emit(tr1, RetryNotification(id, MessageOf(out)))
          IN  CASE out = "ok" ->
                     /\ LoopHead("api-gateway", i["api-gateway"] + 1, tr1)
                     /\ existing' = Remove("api-gateway", id)
                     /\ attemptNumber' = 1
                [] out # "ok" /\ Aborts(out) ->
                     /\ Throw("api-gateway", tr1)
                     /\ UNCHANGED <<existing, attemptNumber>>
                [] out # "ok" /\ ~Aborts(out) /\ RetriesLeft(attemptNumber) ->
                     /\ Goto("api-gateway", "deleteRestApi",
                             Append(tr2, Delay(id, Timeout(attemptNumber))))
                     /\ attemptNumber' = attemptNumber + 1
                     /\ existing' = existing
                [] OTHER ->
                     /\ Throw("api-gateway", tr2)
                     /\ UNCHANGED <<existing, attemptNumber>>
    /\ UNCHANGED <<lvars, resources, generated, history, objects, inline, attached, enabled, etag,
                   bucketLocals, roleLocals, cfLocals>>

\* -------------------------------------------------------------- iam-role
\* The elements of a set of numbers, ascending.
RECURSIVE Ascending(_)
Ascending(S) ==
    IF S = {} THEN <<>>
    ELSE LET m == CHOOSE x \in S : \A y \in S : x <= y
         IN  <<m>> \o Ascending(S \ {m})

\* Provider: listRolePolicies({RoleName}) and listAttachedRolePolicies(
\* {RoleName}) without a Marker serve the first page of the role's policies.
FirstPolicyPage(policies) == Ascending(Smallest(policies, PolicyPage))

RoleListRolePolicies ==
    /\ pc["iam-role"] = "listRolePolicies"
    /\ \E out \in Outcomes :
          LET RoleName == Item("iam-role")
              page == FirstPolicyPage(inline[RoleName])
              tr == Emit(trace["iam-role"], Notification("Deleting", RoleName))
          IN  IF out = "ok"
              THEN /\ PolicyNames' = page
                   /\ j' = 0
                   /\ Goto("iam-role",
                           IF 0 < Len(page)
                           THEN "deleteRolePolicy" ELSE "listAttachedRolePolicies",
                           Append(tr, Call("listRolePolicies", RoleName, Range(page),
                                           0, FALSE, out)))
              ELSE /\ Throw("iam-role",
                            Append(tr, Call("listRolePolicies", RoleName, {}, 0, FALSE, out)))
                   /\ UNCHANGED <<PolicyNames, j>>
    /\ UNCHANGED <<lvars, resources, generated, history, provider, bucketLocals, AttachedPolicies,
                   attemptNumber, cfLocals>>

RoleDeleteRolePolicy ==
    /\ pc["iam-role"] = "deleteRolePolicy"
    /\ \E out \in Outcomes :
          LET RoleName == Item("iam-role")
              PolicyName == PolicyNames[j + 1]
              tr == Append(trace["iam-role"],
                           Call("deleteRolePolicy", RoleName, {PolicyName}, 0, FALSE, out))
          IN  IF out = "ok"
              THEN /\ inline' = [inline EXCEPT ![RoleName] = @ \ {PolicyName}]
                   /\ j' = IF j + 1 < Len(PolicyNames) THEN j + 1 ELSE 0
                   /\ Goto("iam-role",
                           IF j + 1 < Len(PolicyNames)
                           THEN "deleteRolePolicy" ELSE "listAttachedRolePolicies",
                           tr)
              ELSE /\ Throw("iam-role", tr)
                   /\ UNCHANGED <<inline, j>>
    /\ UNCHANGED <<lvars, resources, generated, history, existing, objects, attached, enabled, etag,
                   bucketLocals, PolicyNames, AttachedPolicies, attemptNumber, cfLocals>>

RoleListAttachedRolePolicies ==
    /\ pc["iam-role"] = "listAttachedRolePolicies"
    /\ \E out \in Outcomes :
          LET RoleName == Item("iam-role")
              page == FirstPolicyPage(attached[RoleName])
          IN  IF out = "ok"
              THEN /\ AttachedPolicies' = page
                   /\ j' = 0
                   /\ Goto("iam-role",
                           IF 0 < Len(page) THEN "detachRolePolicy" ELSE "deleteRole",
                           Append(trace["iam-role"],
                                  Call("listAttachedRolePolicies", RoleName,
                                       Range(page), 0, FALSE, out)))
              ELSE /\ Throw("iam-role",
                            Append(trace["iam-role"],
                                   Call("listAttachedRolePolicies", RoleName, {}, 0, FALSE, out)))
                   /\ UNCHANGED <<AttachedPolicies, j>>
    /\ UNCHANGED <<lvars, resources, generated, history, provider, bucketLocals, PolicyNames,
                   attemptNumber, cfLocals>>

RoleDetachRolePolicy ==
    /\ pc["iam-role"] = "detachRolePolicy"
    /\ \E out \in Outcomes :
          LET RoleName == Item("iam-role")
              PolicyArn == AttachedPolicies[j + 1]
              tr == Append(trace["iam-role"],
                           Call("detachRolePolicy", RoleName, {PolicyArn}, 0, FALSE, out))
          IN  IF out = "ok"
              THEN /\ attached' = [attached EXCEPT ![RoleName] = @ \ {PolicyArn}]
                   /\ j' = IF j + 1 < Len(AttachedPolicies) THEN j + 1 ELSE 0
                   /\ Goto("iam-role",
                           IF j + 1 < Len(AttachedPolicies)
                           THEN "detachRolePolicy" ELSE "deleteRole",
                           tr)
              ELSE /\ Throw("iam-role", tr)
                   /\ UNCHANGED <<attached, j>>
    /\ UNCHANGED <<lvars, resources, generated, history, existing, objects, inline, enabled, etag,
                   bucketLocals, PolicyNames, AttachedPolicies, attemptNumber, cfLocals>>

\* Provider: a role that still has policies cannot be deleted.
DeleteRoleOutcomes(RoleName) ==
    IF inline[RoleName] \cup attached[RoleName] # {}
    THEN {"DeleteConflict"} ELSE Outcomes

RoleDeleteRole ==
    /\ pc["iam-role"] = "deleteRole"
    /\ \E out \in DeleteRoleOutcomes(Item("iam-role")) :
          LET RoleName == Item("iam-role")
              tr == Append(trace["iam-role"], Call("deleteRole", RoleName, {}, 0, FALSE, out))
          IN  IF out = "ok"
              THEN /\ LoopHead("iam-role", i["iam-role"] + 1, tr)
                   /\ existing' = Remove("iam-role", RoleName)
              ELSE /\ Throw("iam-role", tr)
                   /\ existing' = existing
    /\ UNCHANGED <<lvars, resources, generated, history, objects, inline, attached, enabled, etag, locals>>

\* ------------------------------------------------------------ cloudfront
\* The distribution is taken for disabled whatever its configuration says.
StillEnabledNever(config) == FALSE

\* if (DistributionConfig.Enabled)
StillEnabled(config) == config.Enabled

\* The task stops at a distribution it had to disable.
AfterDisableStops(k, n, tr) ==
    /\ pc' = [pc EXCEPT ![k] = "resolved"]
    /\ trace' = [trace EXCEPT ![k] = Emit(tr, Error("The distribution is enabled"))]
    /\ i' = i

\* continue; (after the update that disables the distribution)
AfterDisable(k, n, tr) == LoopHead(k, n, tr)

\* The call's entry records the ETag and the Enabled flag of the response.
CloudFrontGetDistributionConfig ==
    /\ pc["cloudfront"] = "getDistributionConfig"
    /\ \E out \in Outcomes :
          LET Id == Item("cloudfront")
              said == Emit(trace["cloudfront"], Notification("Fetching", Id))
              tr == Append(said,
                           IF out = "ok"
                           THEN Call("getDistributionConfig", Id, {}, etag[Id],
                                     enabled[Id], out)
                           ELSE Call("getDistributionConfig", Id, {}, 0, FALSE, out))
          IN  IF out = "ok"
              THEN /\ ETag' = etag[Id]
                   /\ DistributionConfig' = [Enabled |-> enabled[Id]]
                   /\ Goto("cloudfront",
                           IF StillEnabled([Enabled |-> enabled[Id]])
                           THEN "updateDistribution" ELSE "deleteDistribution",
                           tr)
              ELSE /\ Throw("cloudfront", tr)
                   /\ UNCHANGED cfLocals
    /\ UNCHANGED <<lvars, resources, generated, history, provider, bucketLocals, roleLocals, attemptNumber>>

\* if (DistributionConfig.Enabled): disable it and continue with the next
\* item.
CloudFrontUpdateDistribution ==
    /\ pc["cloudfront"] = "updateDistribution"
    /\ \E out \in Outcomes :
          LET Id == Item("cloudfront")
              config == [DistributionConfig EXCEPT !.Enabled = FALSE]
              tr == Append(Emit(trace["cloudfront"], Notification("Disabling", Id)),
                           Call("updateDistribution", Id, {}, ETag, config.Enabled, out))
          IN  IF out = "ok"
              THEN /\ enabled' = [enabled EXCEPT ![Id] = config.Enabled]
                   /\ etag' = [etag EXCEPT ![Id] = @ + NItems]
                   /\ AfterDisable("cloudfront", i["cloudfront"] + 1, tr)
              ELSE /\ Throw("cloudfront", tr)
                   /\ UNCHANGED <<enabled, etag>>
    /\ UNCHANGED <<lvars, resources, generated, history, existing, objects, inline, attached, locals>>

\* try { deleteDistribution } catch (err) { observer.error(err.message); return; }
\* The failure is signalled and the loop goes on with the next item.
CatchGoesOn(k, tr, message) == LoopHead(k, i[k] + 1, Emit(tr, Error(message)))

\* catch (err) { observer.error(err.message); return; }
Catch(k, tr, message) ==
    /\ pc' = [pc EXCEPT ![k] = "resolved"]
    /\ trace' = [trace EXCEPT ![k] = Emit(tr, Error(message))]
    /\ i' = i

CloudFrontDeleteDistribution ==
    /\ pc["cloudfront"] = "deleteDistribution"
    /\ \E out \in Outcomes :
          LET Id == Item("cloudfront")
              tr == Append(Emit(trace["cloudfront"], Notification("Deleting", Id)),
                           Call("deleteDistribution", Id, {}, ETag, FALSE, out))
          IN  IF out = "ok"
              THEN /\ LoopHead("cloudfront", i["cloudfront"] + 1, tr)
                   /\ existing' = Remove("cloudfront", Id)
              ELSE /\ Catch("cloudfront", tr, MessageOf(out))
                   /\ UNCHANGED existing
    /\ UNCHANGED <<lvars, resources, generated, history, objects, inline, attached, enabled, etag, locals>>

\* ------------------------------------------------------- specifications
\* The operator's selections of one kind: records of the catalog, in the
\* catalog's order.
Selections == {Ascending(S) : S \in SUBSET Items}

Sum2(f, S) == LET RECURSIVE Go(_)
                  Go(T) == IF T = {} THEN 0
                           ELSE LET x == CHOOSE y \in T : TRUE
                                IN  f[x] + Go(T \ {x})
              IN  Go(S)

\* Provider: how n or fewer things are spread over the resources.
Holdings(n) == {f \in [Items -> 0..n] : Sum2(f, Items) <= n}

\* The locals before any task has run.
LocalsInit ==
    /\ bMarker = 0
    /\ Contents = {}
    /\ IsTruncated = FALSE
    /\ PolicyNames = <<>>
    /\ AttachedPolicies = <<>>
    /\ j = 0
    /\ attemptNumber = 1
    /\ ETag = 0
    /\ DistributionConfig = [Enabled |-> FALSE]

\* The keys a selection mapping may have: the kinds and one more.
Keys == Kinds \cup {"sqs"}

\* What the switch's default case returns.
Null == [title |-> <<>>, task |-> "null"]

\* The callback of map: the switch on the key. A title is the template's
\* three parts; the task closure is named by the kind whose protocol it runs.
TaskFor(type, mapping) ==
    LET length == ToString(Len(mapping[type]))
    IN  CASE type = "lambda" ->
               [title |-> <<"Delete", length, "Lambda functions">>, task |-> type]
          [] type = "bucket" ->
               [title |-> <<"Delete", length, "buckets">>, task |-> type]
          [] type = "api-gateway" ->
               [title |-> <<"Delete", length, "API Gateways">>, task |-> type]
          [] type = "iam-role" ->
               [title |-> <<"Delete", length, "IAM roles">>, task |-> type]
          [] type = "cloudfront" ->
               [title |-> <<"Delete", length, "CloudFront distribution">>, task |-> type]
          [] type = "log-group" ->
               [title |-> <<"Delete", length, "CloudWatch Log Groups">>, task |-> type]
          [] OTHER -> Null

\* Nothing is filtered out.
BooleanOfAnything(v) == TRUE

\* Boolean(v) for the values map yields: an object is truthy, null is not.
Boolean(v) == v # Null

\* Object.keys(resources).map(...).filter(Boolean)
GenerateTasks(keys, mapping) ==
    SelectSeq([n \in 1..Len(keys) |-> TaskFor(keys[n], mapping)], Boolean)

\* The tasks that exist, not yet run: those of the array returned.
Created(returned) ==
    [k \in Kinds |->
        IF \E n \in 1..Len(returned) : returned[n].task = k
        THEN "created" ELSE "none"]

\* generateTasks(resources) has returned; no task has run yet.
TasksOf(keys, mapping) ==
    /\ resources = mapping
    /\ order = keys
    /\ tasks = GenerateTasks(keys, mapping)
    /\ gpc = "returned"
    /\ pc = Created(GenerateTasks(keys, mapping))
    /\ i = [k \in Kinds |-> 0]
    /\ trace = [k \in Kinds |-> <<>>]
    /\ existing = [k \in Kinds |-> Items]
    /\ LocalsInit

NoObjects == objects = [b \in Items |-> {}]
NoPolicies == inline = [r \in Items |-> {}] /\ attached = [r \in Items |-> {}]
AllDisabled == enabled = [d \in Items |-> FALSE]

Remembered ==
    initially = [objects |-> objects, inline |-> inline, attached |-> attached,
                 enabled |-> enabled]

\* The provider as one task of kind k finds it.
ProviderFor(k) ==
    /\ IF k = "bucket"
       THEN \E held \in Holdings(MaxObjects) : objects = [b \in Items |-> 1..held[b]]
       ELSE NoObjects
    /\ IF k = "iam-role"
       THEN \E I \in Holdings(MaxPolicies) :
               \E A \in {f \in Holdings(MaxPolicies) :
                            Sum2(f, Items) + Sum2(I, Items) <= MaxPolicies} :
                  /\ inline = [r \in Items |-> 1..I[r]]
                  /\ attached = [r \in Items |-> 1..A[r]]
       ELSE NoPolicies
    /\ IF k = "cloudfront" THEN enabled \in [Items -> BOOLEAN] ELSE AllDisabled
    /\ etag = [d \in Items |-> d]
    /\ Remembered

\* One task: the mapping has one key.
Init ==
    /\ ListIdle
    /\ \E k \in Kinds :
          /\ \E selection \in Selections : TasksOf(<<k>>, [kk \in {k} |-> selection])
          /\ ProviderFor(k)

Next ==
    \/ Subscribe
    \/ LambdaDeleteFunction
    \/ LogGroupDeleteLogGroup
    \/ BucketListObjects
    \/ BucketDeleteObjects
    \/ BucketDeleteBucket
    \/ ApiDeleteRestApi
    \/ RoleListRolePolicies
    \/ RoleDeleteRolePolicy
    \/ RoleListAttachedRolePolicies
    \/ RoleDetachRolePolicy
    \/ RoleDeleteRole
    \/ CloudFrontGetDistributionConfig
    \/ CloudFrontUpdateDistribution
    \/ CloudFrontDeleteDistribution

Spec == Init /\ [][Next]_vars

\* The api-gateway task alone. The provider answers every call and pRetry's
\* timer fires, so the task's next step is always taken.
ApiInit ==
    /\ ListIdle
    /\ \E selection \in Selections :
          TasksOf(<<"api-gateway">>, [k \in {"api-gateway"} |-> selection])
    /\ ProviderFor("api-gateway")

ApiNext ==
    \/ Subscribe
    \/ ApiDeleteRestApi

SpecApi == ApiInit /\ [][ApiNext]_vars /\ WF_vars(ApiNext)

\* One listing run, no task.
ListSpecInit ==
    /\ ListInit
    /\ TasksOf(<<>>, <<>>)
    /\ ProviderFor("lambda")

SpecList == ListSpecInit /\ [][ListNext]_vars

\* Two tasks of one generateTasks call, of different kinds, their steps
\* interleaved in any way. Each selection is the first one or more records;
\* every selected bucket holds the same keys, every selected role the same
\* policies, and the selected distributions are all enabled or all disabled.
PairProvider(keys) ==
    /\ \E n \in 0..1 :
          /\ "bucket" \notin keys => n = 0
          /\ objects = [b \in Items |-> 1..n]
    /\ \E n \in 0..1 :
          /\ "iam-role" \notin keys => n = 0
          /\ inline = [r \in Items |-> 1..n]
          /\ attached = [r \in Items |-> 1..n]
    /\ \E b \in BOOLEAN :
          /\ "cloudfront" \notin keys => ~b
          /\ enabled = [d \in Items |-> b]
    /\ etag = [d \in Items |-> d]
    /\ Remembered

\* The kinds in the order of the switch's cases.
KindsInOrder ==
    <<"lambda", "bucket", "api-gateway", "iam-role", "cloudfront", "log-group">>

PairInit ==
    /\ ListIdle
    /\ \E a, b \in 1..Len(KindsInOrder) :
          /\ a < b
          /\ \E mapping \in [{KindsInOrder[a], KindsInOrder[b]} ->
                                {Ascending(1..n) : n \in 1..MaxPair}] :
                TasksOf(<<KindsInOrder[a], KindsInOrder[b]>>, mapping)
          /\ PairProvider({KindsInOrder[a], KindsInOrder[b]})

SpecPair == PairInit /\ [][Next]_vars

\* generateTasks alone. The mapping's keys come in any order, an
\* unrecognized key among them; what matters of a selection is its length.
KeyOrders ==
    {s \in SeqsUpTo(Keys, MaxKeys) : \A m, n \in 1..Len(s) : s[m] = s[n] => m = n}

GenInit ==
    /\ ListIdle
    /\ order \in KeyOrders
    /\ resources \in [Range(order) -> {Ascending(1..n) : n \in 0..NItems}]
    /\ tasks = <<>>
    /\ gpc = "called"
    /\ pc = [k \in Kinds |-> "none"]
    /\ i = [k \in Kinds |-> 0]
    /\ trace = [k \in Kinds |-> <<>>]
    /\ existing = [k \in Kinds |-> Items]
    /\ LocalsInit
    /\ ProviderFor("lambda")

generateTasks ==
    /\ gpc = "called"
    /\ tasks' = GenerateTasks(order, resources)
    /\ pc' = Created(tasks')
    /\ gpc' = "returned"
    /\ UNCHANGED <<lvars, resources, order, i, trace, provider, history, locals>>

SpecGen == GenInit /\ [][generateTasks]_vars

\* ---------------------------------------------------- reading the traces
\* The positions of a task's trace that hold a provider call.
CallsIn(tr) == {n \in 1..Len(tr) : tr[n].ev = "call"}

\* The positions that hold a call of `op` on resource x.
CallsOf(tr, op, x) == {n \in CallsIn(tr) : tr[n].op = op /\ tr[n].target = x}

\* The calls that change something at the provider.
Mutating ==
    {"deleteFunction", "deleteLogGroup", "deleteRestApi", "deleteObjects",
     "deleteBucket", "deleteRolePolicy", "detachRolePolicy", "deleteRole",
     "updateDistribution", "deleteDistribution"}

\* The task's async function has returned or thrown.
Ended(k) == pc[k] \in {"resolved", "rejected"}

\* The items a lister has to return: all it was served, less the system
\* roles for identity roles.
Wanted(x) == lkind # "iam-role" \/ IsUserRole(x)

\* ---------------------------------------------------------------- claims
\* C1: every lister returns the complete collection: it has read every page
\* the provider serves, and every item served (for identity roles: every
\* item that is not a system role) is in the collection returned.
C1_ListerReturnsEveryPage ==
    lpc = "returned" =>
        /\ acc = served
        /\ \A x \in Range(served) : Wanted(x) => x \in Range(result)

\* The same, for the five kinds whose lister loops: it holds (only
\* getAllBuckets stops after one call).
ListerCompleteButBuckets ==
    (lpc = "returned" /\ lkind # "bucket") =>
        /\ acc = served
        /\ \A x \in Range(served) : Wanted(x) => x \in Range(result)

\* C2: the collection a lister returns holds no item twice, also when the
\* provider serves an item on more than one page of the run.
C2_NoItemTwice ==
    lpc = "returned" => \A x \in Items : Occurrences(result, x) <= 1

\* C3: every mutating provider call of a task names a resource that is in
\* the list selected for the task's kind.
C3_OnlySelectedTargets ==
    \A k \in Kinds : \A n \in CallsIn(trace[k]) :
        trace[k][n].op \in Mutating =>
            /\ k \in DOMAIN resources
            /\ trace[k][n].target \in Range(resources[k])

\* C3's case: a task has run to its end on a selection that leaves out a
\* resource of the catalog, and has changed something.
C3_Witness ==
    \E k \in DOMAIN resources :
        /\ pc[k] = "resolved"
        /\ Range(resources[k]) # Items
        /\ \E n \in CallsIn(trace[k]) :
              trace[k][n].op \in Mutating /\ trace[k][n].out = "ok"

\* C4: when a task ends after a provider call failed for good, it has
\* emitted the failure signal with the error's message (and so it never
\* ends such a run with neither the failure nor the completion signal).
C4_FailureIsSignalled ==
    \A k \in Kinds :
        (/\ Ended(k)
         /\ CallsIn(trace[k]) # {}
         /\ LET last == trace[k][SetMax(CallsIn(trace[k]))]
            IN  last.out # "ok") =>
            LET last == trace[k][SetMax(CallsIn(trace[k]))]
            IN  /\ Closed(trace[k])
                /\ \E n \in 1..Len(trace[k]) :
                      trace[k][n].ev = "error" /\ trace[k][n].out = MessageOf(last.out)

\* The part of C4 that holds: deleteDistribution is the one call whose
\* failure is signalled.
DeleteDistributionFailureIsSignalled ==
    \A n \in CallsIn(trace["cloudfront"]) :
        (trace["cloudfront"][n].op = "deleteDistribution"
            /\ trace["cloudfront"][n].out # "ok") =>
            /\ n + 1 = Len(trace["cloudfront"])
            /\ trace["cloudfront"][n + 1] = Error(MessageOf(trace["cloudfront"][n].out))

\* The entries of a trace that concern resource x, in order.
RECURSIVE About(_, _)
About(tr, x) ==
    IF tr = <<>> THEN <<>>
    ELSE IF Head(tr).target = x THEN <<Head(tr)>> \o About(Tail(tr), x)
         ELSE About(Tail(tr), x)

\* How the attempts of deleteRestApi on gateway x ended, in order.
RECURSIVE Attempts(_, _)
Attempts(tr, x) ==
    IF tr = <<>> THEN <<>>
    ELSE IF Head(tr).ev = "call" /\ Head(tr).op = "deleteRestApi" /\ Head(tr).target = x
         THEN <<Head(tr).out>> \o Attempts(Tail(tr), x)
         ELSE Attempts(Tail(tr), x)

TooMany == "TooManyRequestsException"

\* C5 as stated: at most 3 attempts of deleteRestApi for a gateway.
C5_AtMostThreeAttempts ==
    \A x \in Items : Len(Attempts(trace["api-gateway"], x)) <= 3

\* C5, amended: at most 4 attempts of deleteRestApi for a gateway (the
\* first and 3 retries); when the 4th has failed too, the error propagates
\* (the async function's promise rejects) and that attempt is the last
\* provider call of the task.
C5_AtMostFourAttempts ==
    \A x \in Items :
        LET tr == trace["api-gateway"]
            tries == Attempts(tr, x)
        IN  /\ Len(tries) <= 4
            /\ (Len(tries) = 4 /\ tries[4] # "ok") =>
                  /\ pc["api-gateway"] = "rejected"
                  /\ tr[SetMax(CallsIn(tr))].target = x
                  /\ tr[SetMax(CallsIn(tr))].info = 4

\* C5's case: a gateway's attempts are exhausted.
C5_Witness ==
    \E x \in Items :
        Attempts(trace["api-gateway"], x) = <<TooMany, TooMany, TooMany, TooMany>>

\* What holds of gateway x once its attempts ended <<failed, failed, ok>>
\* with the "too many requests" classification: its part of the trace, that
\* the loop is past it, and how the task ends from there.
Recovered(x) ==
    LET tr == trace["api-gateway"]
    IN  Attempts(tr, x) = <<TooMany, TooMany, "ok">> =>
          /\ About(tr, x) =
                << Notification("Deleting", x),
                   Call("deleteRestApi", x, {}, 1, FALSE, TooMany),
                   RetryNotification(x, MessageOf(TooMany)),
                   Delay(x, 60000),
                   Call("deleteRestApi", x, {}, 2, FALSE, TooMany),
                   RetryNotification(x, MessageOf(TooMany)),
                   Delay(x, 120000),
                   Call("deleteRestApi", x, {}, 3, FALSE, "ok") >>
          /\ \E n \in 1..Len(resources["api-gateway"]) :
                resources["api-gateway"][n] = x /\ n <= i["api-gateway"]
          /\ (Ended("api-gateway") /\ tr[SetMax(CallsIn(tr))].out = "ok") =>
                (pc["api-gateway"] = "resolved" /\ tr[Len(tr)] = Complete)

\* C6: a gateway whose delete call fails twice with the "too many requests"
\* classification and then succeeds gets exactly 3 attempts, a retry
\* notification with the error's message after each failure, a wait of 60 s
\* and then one of 120 s; the task goes on to the next item, it ends, and
\* when it ends after a successful call it has signalled completion.
C6_RecoversAfterTwoFailures ==
    /\ [](\A x \in Items : Recovered(x))
    /\ \A x \in Items :
          (Attempts(trace["api-gateway"], x) = <<TooMany, TooMany, "ok">>)
              ~> Ended("api-gateway")

\* C6's case: a gateway recovered on its third attempt, the task went on to
\* another gateway and completed.
C6_Witness ==
    \E x \in Items :
        LET tr == trace["api-gateway"]
        IN  /\ Attempts(tr, x) = <<TooMany, TooMany, "ok">>
            /\ resources["api-gateway"][Len(resources["api-gateway"])] # x
            /\ tr[Len(tr)] = Complete

\* C7: an attempt of deleteRestApi that fails with an error that is not
\* "too many requests" is the end of the task's trace: no retry
\* notification, no wait and no further deleteRestApi call follows, for this
\* gateway or another; if it was the gateway's first attempt, the gateway
\* got exactly 1 attempt.
C7_NoRetryOfOtherErrors ==
    LET tr == trace["api-gateway"]
    IN  \A n \in CallsIn(tr) :
            (tr[n].op = "deleteRestApi" /\ tr[n].out \notin {"ok", TooMany}) =>
                /\ n = Len(tr)
                /\ pc["api-gateway"] = "rejected"
                /\ tr[n].info = 1 => Len(Attempts(tr, tr[n].target)) = 1

\* C7's case: with gateways still to go, a first attempt failed with
\* another error.
C7_Witness ==
    LET tr == trace["api-gateway"]
    IN  /\ Len(tr) > 0
        /\ tr[Len(tr)].ev = "call"
        /\ tr[Len(tr)].out = "AccessDenied"
        /\ tr[Len(tr)].info = 1
        /\ i["api-gateway"] + 1 < Len(resources["api-gateway"])

\* The pages listObjects serves a bucket of n keys as: full pages and a
\* last one; an empty bucket is served as one empty page.
PagesOf(n) == IF n = 0 THEN 1 ELSE (n + ObjectPage - 1) \div ObjectPage

\* The calls of `op` on x that precede position n of the trace.
Before(tr, op, x, n) == {m \in CallsOf(tr, op, x) : m < n}

\* The call that precedes position n of the trace.
CallBefore(tr, n) == tr[SetMax({m \in CallsIn(tr) : m < n})]

\* C8 as stated: before deleteBucket, a bucket served as P pages has got
\* exactly P listObjects and exactly P deleteObjects calls.
C8_AsManyDeletesAsPages ==
    LET tr == trace["bucket"]
    IN  \A n \in CallsIn(tr) :
            tr[n].op = "deleteBucket" =>
                LET b == tr[n].target
                    P == PagesOf(Cardinality(initially.objects[b]))
                IN  /\ Cardinality(Before(tr, "listObjects", b, n)) = P
                    /\ Cardinality(Before(tr, "deleteObjects", b, n)) = P

\* C8, amended: before the single deleteBucket call, a bucket served as P
\* pages has got exactly P listObjects calls and one deleteObjects call for
\* each page that is not empty (P when the bucket held objects, none when it
\* was empty), each deleteObjects right after the listing whose keys it
\* carries; none of them comes after deleteBucket.
C8_OneDeletePerNonEmptyPage ==
    LET tr == trace["bucket"]
    IN  \A n \in CallsIn(tr) :
            tr[n].op = "deleteBucket" =>
                LET b == tr[n].target
                    K == Cardinality(initially.objects[b])
                IN  /\ CallsOf(tr, "deleteBucket", b) = {n}
                    /\ Cardinality(CallsOf(tr, "listObjects", b)) = PagesOf(K)
                    /\ Cardinality(CallsOf(tr, "deleteObjects", b)) =
                          IF K = 0 THEN 0 ELSE PagesOf(K)
                    /\ \A m \in CallsOf(tr, "listObjects", b) \cup
                                CallsOf(tr, "deleteObjects", b) : m < n
                    /\ \A m \in CallsOf(tr, "deleteObjects", b) :
                          /\ CallBefore(tr, m).op = "listObjects"
                          /\ CallBefore(tr, m).target = b
                          /\ CallBefore(tr, m).arg = tr[m].arg
                          /\ tr[m].arg # {}

\* C8's case: a bucket of more than one page and an empty bucket have both
\* been deleted by one task.
C8_Witness ==
    LET tr == trace["bucket"]
    IN  /\ \E n \in CallsIn(tr) :
              /\ tr[n].op = "deleteBucket" /\ tr[n].out = "ok"
              /\ Cardinality(initially.objects[tr[n].target]) > ObjectPage
        /\ \E n \in CallsIn(tr) :
              /\ tr[n].op = "deleteBucket" /\ tr[n].out = "ok"
              /\ initially.objects[tr[n].target] = {}

\* The keys handed to the deleteObjects calls on bucket b that succeeded.
Deleted(tr, b) ==
    UNION {tr[m].arg : m \in {c \in CallsOf(tr, "deleteObjects", b) : tr[c].out = "ok"}}

\* The last listObjects call on bucket b.
LastListing(tr, b) == tr[SetMax(CallsOf(tr, "listObjects", b))]

\* C9 as stated: when deleteBucket is about to be issued the bucket holds
\* nothing, all it held went through a deleteObjects call, and the drain loop
\* ran until a listing returned an empty page.
C9_DrainedToAnEmptyPage ==
    pc["bucket"] = "deleteBucket" =>
        LET b == Item("bucket")
        IN  /\ objects[b] = {}
            /\ initially.objects[b] \subseteq Deleted(trace["bucket"], b)
            /\ LastListing(trace["bucket"], b).arg = {}

\* C9, amended: when deleteBucket is about to be issued the bucket holds
\* nothing, all it held went through a deleteObjects call that succeeded,
\* and the drain loop ran until a listing returned an empty page or a page
\* flagged as not truncated.
C9_DrainedToTheLastPage ==
    pc["bucket"] = "deleteBucket" =>
        LET b == Item("bucket")
            listed == LastListing(trace["bucket"], b)
        IN  /\ objects[b] = {}
            /\ initially.objects[b] \subseteq Deleted(trace["bucket"], b)
            /\ initially.objects[b] = Deleted(trace["bucket"], b)
            /\ listed.out = "ok"
            /\ listed.arg = {} \/ ~listed.flag

\* C9's case: deleteBucket is about to be issued on a bucket that held more
\* than one page of objects.
C9_Witness ==
    /\ pc["bucket"] = "deleteBucket"
    /\ Cardinality(initially.objects[Item("bucket")]) > ObjectPage

\* C10: when deleteRole is about to be issued, the role has got one
\* deleteRolePolicy call per inline policy and one detachRolePolicy call per
\* attached policy it had, all of them completed.
C10_EveryPolicyCleared ==
    pc["iam-role"] = "deleteRole" =>
        LET r == Item("iam-role")
            tr == trace["iam-role"]
        IN  /\ {tr[m].arg : m \in CallsOf(tr, "deleteRolePolicy", r)} =
                  {{p} : p \in initially.inline[r]}
            /\ Cardinality(CallsOf(tr, "deleteRolePolicy", r)) =
                  Cardinality(initially.inline[r])
            /\ {tr[m].arg : m \in CallsOf(tr, "detachRolePolicy", r)} =
                  {{p} : p \in initially.attached[r]}
            /\ Cardinality(CallsOf(tr, "detachRolePolicy", r)) =
                  Cardinality(initially.attached[r])
            /\ \A m \in CallsOf(tr, "deleteRolePolicy", r) \cup
                        CallsOf(tr, "detachRolePolicy", r) : tr[m].out = "ok"

\* The part of C10 that holds: a role whose policies of each class fit one
\* page has them all cleared before deleteRole.
PoliciesOfOnePageCleared ==
    (/\ pc["iam-role"] = "deleteRole"
     /\ Cardinality(initially.inline[Item("iam-role")]) <= PolicyPage
     /\ Cardinality(initially.attached[Item("iam-role")]) <= PolicyPage) =>
        /\ inline[Item("iam-role")] = {}
        /\ attached[Item("iam-role")] = {}

\* The calls that follow position n of the trace.
CallsAfter(tr, n) == {m \in CallsIn(tr) : m > n}

\* C11: a distribution whose configuration was fetched as enabled gets
\* exactly one updateDistribution call, with Enabled false and the ETag
\* just fetched, and no deleteDistribution call; one fetched as disabled
\* gets exactly one deleteDistribution call, with the ETag just fetched, and
\* no updateDistribution call. The call is the one that follows the fetch.
C11_DisableOrDelete ==
    LET tr == trace["cloudfront"]
    IN  \A x \in Items :
          LET updates == CallsOf(tr, "updateDistribution", x)
              deletes == CallsOf(tr, "deleteDistribution", x)
              fetches == {n \in CallsOf(tr, "getDistributionConfig", x) :
                            tr[n].out = "ok"}
          IN  /\ Cardinality(fetches) <= 1
              /\ fetches = {} => (updates = {} /\ deletes = {})
              /\ \A n \in fetches :
                    LET then == IF tr[n].flag THEN updates ELSE deletes
                        never == IF tr[n].flag THEN deletes ELSE updates
                    IN  /\ never = {}
                        /\ IF CallsAfter(tr, n) = {}
                           THEN /\ then = {}
                                /\ pc["cloudfront"] =
                                      IF tr[n].flag THEN "updateDistribution"
                                      ELSE "deleteDistribution"
                           ELSE then = {CHOOSE m \in CallsAfter(tr, n) :
                                           \A o \in CallsAfter(tr, n) : m <= o}
                        /\ \A m \in then :
                              /\ tr[m].info = tr[n].info
                              /\ tr[m].flag = FALSE

\* C11's case: one task has disabled an enabled distribution and deleted a
\* disabled one.
C11_Witness ==
    LET tr == trace["cloudfront"]
    IN  /\ pc["cloudfront"] = "resolved"
        /\ \E n \in CallsIn(tr) : tr[n].op = "updateDistribution" /\ tr[n].out = "ok"
        /\ \E n \in CallsIn(tr) : tr[n].op = "deleteDistribution" /\ tr[n].out = "ok"

\* C13: the collection a lister returns is in non-increasing order of the
\* kind's timestamp, whatever the kind and the order the provider served.
C13_NewestFirst ==
    lpc = "returned" =>
        \A n \in 1..(Len(result) - 1) : TimeOf(result[n]) >= TimeOf(result[n + 1])

\* C13's case: the provider served an older record before a newer one and
\* the lister returned both.
C13_Witness ==
    /\ lpc = "returned"
    /\ \E m, n \in 1..Len(served) :
          /\ m < n
          /\ TimeOf(served[m]) < TimeOf(served[n])
          /\ {served[m], served[n]} \subseteq Range(result)

\* C14: getAllIAMRoles returns no role whose name starts with "AWSService"
\* or with "OrganizationAccount", and returns every other role the
\* provider served as often as it was served.
C14_ReservedRolesExcluded ==
    (lkind = "iam-role" /\ lpc = "returned") =>
        \A x \in Items :
            IF \/ StartsWith(RoleNameOf(x), AWSService)
               \/ StartsWith(RoleNameOf(x), OrganizationAccount)
            THEN x \notin Range(result)
            ELSE Occurrences(result, x) = Occurrences(served, x)

\* C14's case: a service-linked role, the organization access role and a
\* user role were served and the lister returned.
C14_Witness ==
    /\ lkind = "iam-role"
    /\ lpc = "returned"
    /\ Range(served) = {1, 2, 3}
    /\ result = <<2>>

\* C15: a failed listing call is the last listing call of the run, the
\* lister's promise is rejected, and no collection is returned.
C15_ListingFailurePropagates ==
    \A n \in 1..Len(requests) :
        ~requests[n].ok =>
            /\ n = Len(requests)
            /\ lpc = "rejected"
            /\ result = <<>>

\* C15's case: a listing call failed after a page had been collected.
C15_Witness ==
    /\ lpc = "rejected"
    /\ Len(requests) >= 2
    /\ acc # <<>>

\* A failed call the task recovers from: a "too many requests" failure of
\* deleteRestApi that the retry wrapper still has a retry for.
Recoverable(tr, n) ==
    /\ tr[n].op = "deleteRestApi"
    /\ tr[n].out = TooMany
    /\ Cardinality({m \in CallsOf(tr, "deleteRestApi", tr[n].target) : m <= n})
          <= Retries

\* C16: a provider call that fails unrecoverably is the last provider call
\* of its task, and the task's async function has ended with it: no
\* remaining step of the item and no call for a later item follows.
C16_FailureEndsTheTask ==
    \A k \in Kinds : \A n \in CallsIn(trace[k]) :
        (trace[k][n].out # "ok" /\ ~Recoverable(trace[k], n)) =>
            /\ CallsAfter(trace[k], n) = {}
            /\ Ended(k)

\* C16's case: a call failed for good while items of the selection were
\* still to be processed.
C16_Witness ==
    \E k \in DOMAIN resources :
        /\ Ended(k)
        /\ i[k] + 1 < Len(resources[k])
        /\ \E n \in CallsIn(trace[k]) :
              trace[k][n].out # "ok" /\ ~Recoverable(trace[k], n)

\* Where resource x stands in the list selected for kind k (0: nowhere).
PlaceOf(k, x) ==
    IF k \in DOMAIN resources /\ x \in Range(resources[k])
    THEN CHOOSE p \in 1..Len(resources[k]) : resources[k][p] = x
    ELSE 0

\* C17: a task's provider calls go through the selected list in its order,
\* one item at a time: the first call is for the first item, each later
\* call is for the item of the call before it or, once that call has
\* returned successfully, for the next item of the list; no call returns
\* to an earlier item.
C17_OneItemAtATimeInOrder ==
    \A k \in Kinds :
        LET tr == trace[k]
        IN  \A n \in CallsIn(tr) :
              IF {m \in CallsIn(tr) : m < n} = {}
              THEN PlaceOf(k, tr[n].target) = 1
              ELSE LET last == CallBefore(tr, n)
                   IN  \/ tr[n].target = last.target
                       \/ /\ PlaceOf(k, tr[n].target) = PlaceOf(k, last.target) + 1
                          /\ last.out = "ok"

\* C17's case: a task has gone through a list of several roles, with more
\* than one call for one of them.
C17_Witness ==
    /\ pc["iam-role"] = "resolved"
    /\ Len(resources["iam-role"]) >= 2
    /\ \E n \in CallsIn(trace["iam-role"]) :
          trace["iam-role"][n].op = "deleteRolePolicy"

\* C18: disabling a distribution is no failure. A successful
\* updateDistribution is followed by no failure signal: the task goes on with
\* the next selected distribution or, after the last one, completes; and a
\* task that has ended with no failed call has ended with the completion
\* signal, whatever it had to disable.
C18_DisablingIsNoFailure ==
    LET tr == trace["cloudfront"]
    IN  /\ \A n \in CallsIn(tr) :
              (tr[n].op = "updateDistribution" /\ tr[n].out = "ok") =>
                  LET p == PlaceOf("cloudfront", tr[n].target)
                  IN  IF p < Len(resources["cloudfront"])
                      THEN IF n = Len(tr)
                           THEN /\ pc["cloudfront"] = "getDistributionConfig"
                                /\ i["cloudfront"] = p
                           ELSE tr[n + 1] =
                                  Notification("Fetching", resources["cloudfront"][p + 1])
                      ELSE /\ pc["cloudfront"] = "resolved"
                           /\ Len(tr) = n + 1
                           /\ tr[n + 1] = Complete
        /\ (/\ Ended("cloudfront")
            /\ \A n \in CallsIn(tr) : tr[n].out = "ok") =>
                (tr # <<>> /\ tr[Len(tr)] = Complete)

\* C18's case: a task has disabled a distribution that is not the last of
\* its list, no call has failed, and it has ended.
C18_Witness ==
    LET tr == trace["cloudfront"]
    IN  /\ Ended("cloudfront")
        /\ \A n \in CallsIn(tr) : tr[n].out = "ok"
        /\ \E n \in CallsIn(tr) :
              /\ tr[n].op = "updateDistribution"
              /\ PlaceOf("cloudfront", tr[n].target) < Len(resources["cloudfront"])

\* The positions of a trace that hold a terminal signal.
Terminal(tr) == {n \in 1..Len(tr) : tr[n].ev \in {"complete", "error"}}

\* The provider call that ends the processing of an item of kind k.
ClosingCalls(k) ==
    CASE k = "lambda" -> {"deleteFunction"}
      [] k = "log-group" -> {"deleteLogGroup"}
      [] k = "api-gateway" -> {"deleteRestApi"}
      [] k = "bucket" -> {"deleteBucket"}
      [] k = "iam-role" -> {"deleteRole"}
      [] k = "cloudfront" -> {"updateDistribution", "deleteDistribution"}

\* C20: a task's trace holds at most one terminal signal; it is the last
\* entry of the trace and the task's async function has ended, so that no
\* notification and no provider call follows it; and a completion signal
\* of a task with a non-empty list follows a successful closing call for
\* the last item of the list, with no call in between.
C20_OneTerminalSignalAtTheEnd ==
    \A k \in Kinds :
        LET tr == trace[k]
        IN  /\ Cardinality(Terminal(tr)) <= 1
            /\ \A n \in Terminal(tr) :
                  /\ n = Len(tr)
                  /\ Ended(k)
                  /\ (tr[n].ev = "complete" /\ resources[k] # <<>>) =>
                        /\ CallsIn(tr) # {}
                        /\ LET last == CallBefore(tr, n)
                           IN  /\ last.out = "ok"
                               /\ last.target = resources[k][Len(resources[k])]
                               /\ last.op \in ClosingCalls(k)

\* C20's case: a task has emitted the failure signal with items of its
\* list still to be processed.
C20_Witness ==
    \E k \in DOMAIN resources :
        /\ \E n \in Terminal(trace[k]) : trace[k][n].ev = "error"
        /\ i[k] + 1 < Len(resources[k])

\* A task has completed a list of several items.
C20_Completed ==
    \E k \in DOMAIN resources :
        /\ \E n \in Terminal(trace[k]) : trace[k][n].ev = "complete"
        /\ Len(resources[k]) >= 2

\* The recognized keys of a sequence of keys, in its order.
Recognized(keys) == SelectSeq(keys, LAMBDA k : k \in Kinds)

\* The label a kind's title carries.
LabelOf(k) ==
    CASE k = "lambda" -> "Lambda functions"
      [] k = "bucket" -> "buckets"
      [] k = "api-gateway" -> "API Gateways"
      [] k = "iam-role" -> "IAM roles"
      [] k = "cloudfront" -> "CloudFront distribution"
      [] k = "log-group" -> "CloudWatch Log Groups"

\* C12: generateTasks returns one task per recognized key of the mapping,
\* in the order of the mapping's keys; each task's title holds the number
\* of items selected for its kind and the kind's label; an unrecognized key
\* yields no task and no error, and leaves the result what it is for the
\* mapping without that key.
C12_OneTaskPerRecognizedKey ==
    /\ gpc = "called" => ENABLED generateTasks
    /\ gpc = "returned" =>
          LET known == Recognized(order)
          IN  /\ Len(tasks) = Len(known)
              /\ \A n \in 1..Len(known) :
                    /\ tasks[n].task = known[n]
                    /\ ToString(Len(resources[known[n]])) \in Range(tasks[n].title)
                    /\ LabelOf(known[n]) \in Range(tasks[n].title)
              /\ tasks = GenerateTasks(known, [k \in Range(known) |-> resources[k]])
              /\ \A k \in Kinds : pc[k] # "none" <=> k \in Range(known)

\* C12's case: generateTasks has returned for a mapping of an unrecognized
\* key followed by a recognized one with a non-empty selection.
C12_Witness ==
    /\ gpc = "returned"
    /\ Len(order) = 2
    /\ order[1] \notin Kinds
    /\ order[2] \in Kinds
    /\ resources[order[2]] # <<>>
    /\ Len(tasks) = 1

\* A step of the task of kind k.
Moves(k) == pc'[k] # pc[k] \/ i'[k] # i[k] \/ trace'[k] # trace[k]

\* What the provider holds for kind k and the locals of k's async function.
OwnState(k) ==
    CASE k = "bucket" -> <<objects, bucketLocals>>
      [] k = "iam-role" -> <<inline, attached, roleLocals>>
      [] k = "api-gateway" -> <<attemptNumber>>
      [] k = "cloudfront" -> <<enabled, etag, cfLocals>>
      [] OTHER -> <<>>

\* The task of kind k has started or can be started, and has not ended.
Running(k) == pc[k] \notin {"none", "resolved", "rejected"}

\* C19: two tasks of different kinds do not affect each other. A step of
\* one task changes nothing of the other: not its position, its index, its
\* calls and signals so far, its locals, or what the provider holds for its
\* kind; and a task that has not ended can take its next step whatever the
\* other task has done, be it nothing, completed or failed.
C19_TasksDoNotInterfere ==
    /\ [][\A k \in Kinds :
             Moves(k) =>
                 \A o \in Kinds \ {k} :
                     /\ ~Moves(o)
                     /\ existing'[o] = existing[o]
                     /\ OwnState(o)' = OwnState(o)]_vars
    /\ [](\A k \in Kinds : Running(k) => ENABLED (Next /\ Moves(k)))

\* C19's case: one task has failed in the middle of its list and the other
\* has gone through its whole list of several items after all.
C19_Witness ==
    \E k, o \in DOMAIN resources :
        /\ k # o
        /\ pc[k] = "rejected"
        /\ i[k] + 1 < Len(resources[k])
        /\ pc[o] = "resolved"
        /\ Len(resources[o]) >= 2
        /\ trace[o][Len(trace[o])] = Complete
====
